---- MODULE Spec2Model ----
(***************************************************************************)
(* aws_status_slack.py: check_loop seeds a dictionary of last publication  *)
(* dates for the requested AWS status feeds, dropping the feeds that are   *)
(* not found, and then polls the remaining feeds forever, posting the      *)
(* newest item of a feed to Slack whenever its publication date is later   *)
(* than the saved one.                                                     *)
(*                                                                         *)
(* The program is one sequential thread.  Its position is pc/pos; every    *)
(* loop iteration is two steps, the fetch (the call that reads the         *)
(* network) and the body that consumes the fetched data.                   *)
(***************************************************************************)
EXTENDS Integers, Sequences, FiniteSets, TLC

\* ---------------------------------------------------------------- bounds
MaxFeeds == 3      \* longest list of feed names given on the command line
MaxTime == 2       \* publication dates range over 0..MaxTime
MaxEntries == 2    \* most entries in one parsed feed

\* ------------------------------------------------------------- constants
REQUESTS_INTERVAL == 2
CHECKS_INTERVAL == 60
\* datetime.now() when the module loads.  Only its order relative to the
\* publication dates matters: dates before it, equal to it and after it all
\* occur in Times.
START_TIME == 1

FeedNames == {"ec2", "s3"}
Times == 0..MaxTime

\* The two phrases send_to_slack looks for in a title.  A title is modelled
\* by the set of these phrases that occur in it, so `phrase in title` is
\* membership.
NORMAL == "Service is operating normally:"
INFORMATIONAL == "Informational message:"
Titles == SUBSET {NORMAL, INFORMATIONAL}

\* An entry of a parsed feed.  published_parsed stands for the first six
\* fields of the struct_time (year .. second), ordered as datetimes are.
Entries == [title : Titles, published_parsed : Times]
OlderEntries == [title : {{}}, published_parsed : Times]

\* Entry lists: the newest-first list of a feed; the entries after the first
\* carry a plain title (nothing reads them).
RECURSIVE ListsUpTo(_, _)
ListsUpTo(S, n) ==
    IF n = 0 THEN {<<>>}
    ELSE LET shorter == ListsUpTo(S, n - 1)
         IN  shorter \cup {Append(l, e) : l \in {x \in shorter : Len(x) = n - 1}, e \in S}

EntryLists ==
    {<<>>} \cup {<<h>> \o t : h \in Entries, t \in ListsUpTo(OlderEntries, MaxEntries - 1)}

\* What feedparser.parse returns.  status is the HTTP status of the
\* response; when the request failed before any response arrived the result
\* has no status key ("absent") and no entries.
STATUS_OK == "200"
Results ==
    [status : {STATUS_OK}, entries : EntryLists]
        \cup [status : {"404"}, entries : {l \in EntryLists : Len(l) <= 1}]
        \cup {[status |-> "absent", entries |-> <<>>]}

NoData == [status |-> "unbound", entries |-> <<>>]

\* What requests.post can do: return a response (whatever its status code)
\* or raise because the endpoint cannot be reached.
PostOutcomes == {"200", "500", "ConnectionError"}

VARIABLES
    feeds,             \* the list check_loop was given, mutated by seeding
    copy,              \* feeds[:], the list the seeding loop traverses
    last_saved_dates,  \* dict: feed name -> date
    data,              \* the parsed feed of the current iteration
    pc,                \* "seed", "seed_body", "loop", "loop_body", "exit"
    pos,               \* 1-based position of the current for loop
    sent,              \* send_to_slack calls made since the latest fetch
    slept,             \* time.sleep calls made since the latest fetch
    fetched,           \* where the latest fetch happened: "", "seed", "loop"
    dropped,           \* feed names a seeding fetch found not existent
    raised,            \* the uncaught exception that ended the process, or ""
    exit_code,         \* <<>> while running, <<code>> once the process ended
    \* Records of what has happened.  Spec leaves them alone; Watched keeps
    \* kept and wrote, Scenario keeps scenario.
    kept,              \* the candidates found reachable, in seeding order
    wrote,             \* feeds whose date was saved in the current cycle
    scenario           \* progress of the feed "ec2" through the sequence
                       \* seeded from an entry, same entry fetched, resolved

observed == <<kept, wrote, scenario>>

vars == <<feeds, copy, last_saved_dates, data, pc, pos, sent,
          slept, fetched, dropped, raised, exit_code, kept, wrote, scenario>>

ScenarioFeed == "ec2"
Off == [stage |-> "off", t0 |-> 0, t1 |-> 0]

\* --------------------------------------------------------------- helpers

\* list.remove(x): the list without its first item equal to x.
RECURSIVE Remove(_, _)
Remove(list, x) ==
    IF list = <<>> THEN <<>>
    ELSE IF Head(list) = x THEN Tail(list)
    ELSE <<Head(list)>> \o Remove(Tail(list), x)

Items(list) == {list[n] : n \in 1..Len(list)}

\* d[key] = value on a dict
SetItem(d, key, value) ==
    [x \in DOMAIN d \cup {key} |-> IF x = key THEN value ELSE d[x]]

\* last_pub_date(data): the date of entry 0
\* (variants: the date of the last entry of the list; the latest date of
\* all the entries)
last_pub_date_oldest(d) == d.entries[Len(d.entries)].published_parsed
last_pub_date_latest(d) ==
    CHOOSE t \in Times :
        /\ \E n \in 1..Len(d.entries) : d.entries[n].published_parsed = t
        /\ \A n \in 1..Len(d.entries) : d.entries[n].published_parsed <= t
last_pub_date(d) == d.entries[1].published_parsed

\* line 83: data.status != 200
not_found(d) == d.status # STATUS_OK

\* line 98: not feeds
\* (variant: the test is missing)
no_feed_left_never(list) == FALSE
no_feed_left(list) == list = <<>>

\* line 126: last_pub > last_saved_dates[feed]
\* (variants: >= in place of >; != in place of >)
content_updated_or_same(last_pub, saved) == last_pub >= saved
content_updated_differs(last_pub, saved) == last_pub # saved
content_updated(last_pub, saved) == last_pub > saved

\* lines 88-92: the dict after seeding has saved the first date of a feed
\* (variants: no else branch; START_TIME whatever the entries)
Seeded_no_else(d, feed, result) ==
    IF result.entries # <<>> THEN SetItem(d, feed, last_pub_date(result)) ELSE d
Seeded_start_time(d, feed, result) == SetItem(d, feed, START_TIME)
Seeded(d, feed, result) ==
    SetItem(d, feed, IF result.entries # <<>> THEN last_pub_date(result)
                                              ELSE START_TIME)

\* The color send_to_slack picks for a title.
\* (variant: the two tests in the other order)
Color_informational_first(title) ==
    IF INFORMATIONAL \in title THEN "warning"
    ELSE IF NORMAL \in title THEN "good"
    ELSE "danger"
Color(title) ==
    IF NORMAL \in title THEN "good"
    ELSE IF INFORMATIONAL \in title THEN "warning"
    ELSE "danger"

\* The call send_to_slack(item, ...) and the outcome of its requests.post.
Call(feed, item, outcome) ==
    [feed |-> feed, item |-> item, color |-> Color(item.title), post |-> outcome]

\* An uncaught exception ends the process; Python exits with status 1.
Uncaught(e) ==
    /\ pc' = "exit"
    /\ raised' = e
    /\ exit_code' = <<1>>

\* ------------------------------------------------------------------ init
Init ==
    /\ feeds \in {l \in ListsUpTo(FeedNames, MaxFeeds) : l # <<>>}
    /\ copy = feeds
    /\ last_saved_dates = <<>>
    /\ data = NoData
    /\ pc = "seed"
    /\ pos = 1
    /\ sent = <<>>
    /\ slept = <<>>
    /\ fetched = ""
    /\ dropped = {}
    /\ raised = ""
    /\ exit_code = <<>>
    /\ kept = <<>>
    /\ wrote = {}
    /\ scenario = Off

\* --------------------------------------------------------------- seeding

\* line 80: data = fetch(feed)
SeedFetch ==
    /\ pc = "seed"
    /\ pos <= Len(copy)
    /\ \E d \in Results : data' = d
    /\ pc' = "seed_body"
    /\ fetched' = "seed"
    /\ slept' = <<>>
    /\ UNCHANGED <<feeds, copy, last_saved_dates, pos, sent,
                   dropped, raised, exit_code>>

\* lines 82-95: the rest of one iteration of the seeding loop
SeedBody ==
    /\ pc = "seed_body"
    /\ LET feed == copy[pos] IN
       IF data.status = "absent"
       THEN \* data.status: the parsed feed has no such key
            /\ Uncaught("AttributeError")
            /\ UNCHANGED <<feeds, last_saved_dates, data, pos, slept, dropped>>
       ELSE IF not_found(data)
       THEN \* feeds.remove(feed); continue
            /\ feeds' = Remove(feeds, feed)
            /\ dropped' = dropped \cup {feed}
            /\ pos' = pos + 1
            /\ pc' = "seed"
            /\ data' = NoData
            /\ UNCHANGED <<last_saved_dates, slept, raised, exit_code>>
       ELSE /\ last_saved_dates' = Seeded(last_saved_dates, feed, data)
            /\ slept' = Append(slept, REQUESTS_INTERVAL)
            /\ pos' = pos + 1
            /\ pc' = "seed"
            /\ data' = NoData
            /\ UNCHANGED <<feeds, dropped, raised, exit_code>>
    /\ UNCHANGED <<copy, sent, fetched>>

\* lines 97-106: after the seeding loop
SeedEnd ==
    /\ pc = "seed"
    /\ pos > Len(copy)
    /\ IF no_feed_left(feeds)
       THEN \* sys.exit(1)
            /\ pc' = "exit"
            /\ exit_code' = <<1>>
            /\ UNCHANGED <<pos, raised>>
       ELSE IF \E f \in Items(feeds) : f \notin DOMAIN last_saved_dates
       THEN \* last_saved_dates[feed] in the logging loop
            /\ Uncaught("KeyError")
            /\ UNCHANGED pos
       ELSE /\ pc' = "loop"
            /\ pos' = 1
            /\ UNCHANGED <<raised, exit_code>>
    /\ UNCHANGED <<feeds, copy, last_saved_dates, data, sent,
                   slept, fetched, dropped>>

\* ------------------------------------------------------------ check loop

\* line 112: data = fetch(feed)
LoopFetch ==
    /\ pc = "loop"
    /\ pos <= Len(feeds)
    /\ \E d \in Results : data' = d
    /\ pc' = "loop_body"
    /\ fetched' = "loop"
    /\ slept' = <<>>
    /\ sent' = <<>>
    /\ UNCHANGED <<feeds, copy, last_saved_dates, pos, dropped,
                   raised, exit_code>>

\* lines 115-117: the feed has no entries; continue
\* (variants: break in place of continue; the feed's date is forgotten)
SkipFeed_break(feed) ==
    /\ pos' = Len(feeds) + 1
    /\ pc' = "loop"
    /\ data' = NoData
    /\ UNCHANGED <<last_saved_dates, sent, slept, raised, exit_code>>
SkipFeed_forget(feed) ==
    /\ pos' = pos + 1
    /\ pc' = "loop"
    /\ data' = NoData
    /\ last_saved_dates' =
          [x \in DOMAIN last_saved_dates \ {feed} |-> last_saved_dates[x]]
    /\ UNCHANGED <<sent, slept, raised, exit_code>>
SkipFeed(feed) ==
    /\ pos' = pos + 1
    /\ pc' = "loop"
    /\ data' = NoData
    /\ UNCHANGED <<last_saved_dates, sent, slept, raised, exit_code>>

\* lines 127-133: the content was updated; send it, save its date, sleep
\* (variant: the date is saved before the item is sent)
Notify_save_first(feed, last_pub) ==
    \E outcome \in PostOutcomes :
        /\ sent' = Append(sent, Call(feed, data.entries[1], outcome))
        /\ last_saved_dates' = SetItem(last_saved_dates, feed, last_pub)
        /\ IF outcome = "ConnectionError"
           THEN /\ Uncaught("ConnectionError")
                /\ UNCHANGED <<data, pos, slept>>
           ELSE /\ slept' = Append(slept, REQUESTS_INTERVAL)
                /\ pos' = pos + 1
                /\ pc' = "loop"
                /\ data' = NoData
                /\ UNCHANGED <<raised, exit_code>>
Notify(feed, last_pub) ==
    \E outcome \in PostOutcomes :
        /\ sent' = Append(sent, Call(feed, data.entries[1], outcome))
        /\ IF outcome = "ConnectionError"
           THEN \* requests.post raises inside send_to_slack
                /\ Uncaught("ConnectionError")
                /\ UNCHANGED <<last_saved_dates, data, pos, slept>>
           ELSE /\ last_saved_dates' =
                       SetItem(last_saved_dates, feed, last_pub)
                /\ slept' = Append(slept, REQUESTS_INTERVAL)
                /\ pos' = pos + 1
                /\ pc' = "loop"
                /\ data' = NoData
                /\ UNCHANGED <<raised, exit_code>>

\* lines 114-133: the rest of one iteration of the for loop
LoopBody ==
    /\ pc = "loop_body"
    /\ LET feed == feeds[pos] IN
       IF data.entries = <<>>
       THEN SkipFeed(feed)
       ELSE IF feed \notin DOMAIN last_saved_dates
       THEN /\ Uncaught("KeyError")
            /\ UNCHANGED <<last_saved_dates, data, pos, sent, slept>>
       ELSE LET last_pub == last_pub_date(data) IN
            IF content_updated(last_pub, last_saved_dates[feed])
            THEN Notify(feed, last_pub)
            ELSE /\ slept' = Append(slept, REQUESTS_INTERVAL)
                 /\ pos' = pos + 1
                 /\ pc' = "loop"
                 /\ data' = NoData
                 /\ UNCHANGED <<last_saved_dates, sent, raised, exit_code>>
    /\ UNCHANGED <<feeds, copy, fetched, dropped>>

\* line 136: the for loop is over; sleep and start the next check
CycleEnd ==
    /\ pc = "loop"
    /\ pos > Len(feeds)
    /\ slept' = Append(slept, CHECKS_INTERVAL)
    /\ pos' = 1
    /\ UNCHANGED <<feeds, copy, last_saved_dates, data, pc, sent,
                   fetched, dropped, raised, exit_code>>

Next ==
    \/ SeedFetch /\ UNCHANGED observed
    \/ SeedBody /\ UNCHANGED observed
    \/ SeedEnd /\ UNCHANGED observed
    \/ LoopFetch /\ UNCHANGED observed
    \/ LoopBody /\ UNCHANGED observed
    \/ CycleEnd /\ UNCHANGED observed

Spec == Init /\ [][Next]_vars

\* ------------------------------------------------- the program, watched

\* The candidates whose seeding fetch returned status 200, in order.
Keep ==
    kept' = IF pc = "seed_body" /\ data.status = STATUS_OK
            THEN Append(kept, copy[pos])
            ELSE kept

\* The feeds whose saved date changed since the cycle began.
Write ==
    wrote' = IF pc = "loop_body" /\ last_saved_dates' # last_saved_dates
             THEN wrote \cup {feeds[pos]}
             ELSE IF pc = "loop" /\ pos > Len(feeds) THEN {}
             ELSE wrote

\* The scenario of the feed "ec2": its seeding fetch returns a newest entry
\* dated t0; a check-loop fetch returns an entry dated t0; a later fetch
\* returns a newer entry, dated t1, whose title has "Service is operating
\* normally:" only; the fetches after that return nothing later than t1.
\* Fetches without entries, or with nothing new, do not advance it; any
\* other fetch of the feed leaves the scenario.
Follow ==
    scenario' =
        IF pc = "seed_body" /\ copy[pos] = ScenarioFeed /\ data.status = STATUS_OK
        THEN IF data.entries # <<>>
             THEN [stage |-> "seeded", t0 |-> data.entries[1].published_parsed, t1 |-> 0]
             ELSE Off
        ELSE IF pc = "loop_body" /\ feeds[pos] = ScenarioFeed /\ data.entries # <<>>
        THEN LET e == data.entries[1] IN
             CASE scenario.stage = "seeded" ->
                    IF e.published_parsed = scenario.t0
                    THEN [scenario EXCEPT !.stage = "same"] ELSE Off
               [] scenario.stage = "same" ->
                    IF e.published_parsed <= scenario.t0 THEN scenario
                    ELSE IF e.title = {NORMAL}
                    THEN [scenario EXCEPT !.stage = "resolved", !.t1 = e.published_parsed]
                    ELSE Off
               [] scenario.stage = "resolved" ->
                    IF e.published_parsed <= scenario.t1 THEN scenario ELSE Off
               [] OTHER -> Off
        ELSE IF pc = "loop_body" /\ feeds[pos] = ScenarioFeed /\ scenario.stage = "seeded"
        THEN Off
        ELSE scenario

Observe == Keep /\ Write /\ UNCHANGED scenario

WatchedNext ==
    \/ SeedFetch /\ Observe
    \/ SeedBody /\ Observe
    \/ SeedEnd /\ Observe
    \/ LoopFetch /\ Observe
    \/ LoopBody /\ Observe
    \/ CycleEnd /\ Observe

Watched == Init /\ [][WatchedNext]_vars

FollowOnly == Follow /\ UNCHANGED <<kept, wrote>>

ScenarioNext ==
    \/ SeedFetch /\ FollowOnly
    \/ SeedBody /\ FollowOnly
    \/ SeedEnd /\ FollowOnly
    \/ LoopFetch /\ FollowOnly
    \/ LoopBody /\ FollowOnly
    \/ CycleEnd /\ FollowOnly

\* The scenario's feed is the first one named; any others follow it.
ScenarioInit == Init /\ Head(feeds) = ScenarioFeed

Scenario == ScenarioInit /\ [][ScenarioNext]_vars

\* ======================================================= properties

\* The next step is the body of a check-loop iteration whose fetch returned
\* entries, for a feed that has a saved date.
ComparesDates ==
    /\ pc = "loop_body"
    /\ data.entries # <<>>
    /\ feeds[pos] \in DOMAIN last_saved_dates

\* Entry 0 of a parsed feed, and its date.
Newest(d) == d.entries[1]
NewestDate(d) == d.entries[1].published_parsed

\* No feed name occurs twice in the list.
NoRepeats(list) == Cardinality(Items(list)) = Len(list)

SeedingOver ==
    \/ pc \in {"loop", "loop_body"}
    \/ pc = "seed" /\ pos > Len(copy)
    \/ pc = "exit" /\ raised \notin {"AttributeError"}

\* C1: when the newest entry fetched in the check loop is strictly later
\* than the feed's saved date, exactly one send_to_slack call is made for
\* that fetch, with entry 0, and if the iteration completes the saved date
\* of the feed is entry 0's date.
C1_NewerEntryNotifiedOnce ==
    [][(ComparesDates /\ NewestDate(data) > last_saved_dates[feeds[pos]])
        => /\ Len(sent') = 1
           /\ sent'[1].feed = feeds[pos]
           /\ sent'[1].item = Newest(data)
           /\ (pc' = "loop" =>
                 last_saved_dates'[feeds[pos]] = NewestDate(data))]_vars

\* An iteration of the check loop has completed after notifying entry 0 and
\* saving its date.
C1_Witness ==
    /\ pc = "loop"
    /\ fetched = "loop"
    /\ Len(sent) = 1
    /\ sent[1].post = "200"
    /\ last_saved_dates[sent[1].feed] = sent[1].item.published_parsed
    /\ sent[1].item.published_parsed > START_TIME

\* C2: when the newest entry fetched in the check loop is not later than
\* the feed's saved date, no send_to_slack call is made and no saved date
\* changes.
C2_NotNewerNotNotified ==
    [][(ComparesDates /\ NewestDate(data) <= last_saved_dates[feeds[pos]])
        => /\ sent' = <<>>
           /\ last_saved_dates' = last_saved_dates
           /\ pc' = "loop"]_vars

\* An iteration of the check loop has completed with entries and without a
\* call: an iteration without entries does not sleep, and an iteration with a
\* newer entry makes a call, so this is the not-newer case.
C2_Witness ==
    /\ pc = "loop"
    /\ fetched = "loop"
    /\ sent = <<>>
    /\ slept = <<REQUESTS_INTERVAL>>
    /\ \E f \in DOMAIN last_saved_dates : last_saved_dates[f] > 0

\* C3: no step replaces a feed's saved date by an earlier one (or removes
\* it).
C3_SavedDatesNeverDecrease ==
    [][\A f \in DOMAIN last_saved_dates :
          /\ f \in DOMAIN last_saved_dates'
          /\ last_saved_dates'[f] >= last_saved_dates[f]]_vars

\* C4: a feed that a seeding fetch found not existent is not in the list of
\* watched feeds once seeding is over, and is never the feed of a later
\* fetch.
C4_DroppedFeedsStayDropped ==
    /\ SeedingOver => dropped \cap Items(feeds) = {}
    /\ (pc = "seed" /\ pos <= Len(copy)) => copy[pos] \notin dropped
    /\ (pc = "loop" /\ pos <= Len(feeds)) => feeds[pos] \notin dropped

\* C5: when the seeding loop ends with no feed left, the next step ends the
\* process with exit code 1 before any check-loop fetch or notification, and
\* an ended process takes no further step.
C5_EmptyWatchSetExits ==
    [][/\ pc # "exit"
       /\ (pc = "seed" /\ pos > Len(copy) /\ feeds = <<>>)
            => /\ pc' = "exit"
               /\ exit_code' = <<1>>
               /\ raised' = ""
               /\ fetched' # "loop"
               /\ sent' = <<>>]_vars

\* Every candidate was found not existent and the process has exited.
C5_Witness ==
    /\ pc = "exit"
    /\ raised = ""
    /\ exit_code = <<1>>
    /\ feeds = <<>>
    /\ Items(copy) = dropped

\* C6: a send_to_slack call whose post fails (raises, or returns a
\* non-success response) does not stop the loop: the iteration completes, the
\* date is saved and the loop moves to the next feed.
C6_DispatchFailureContained ==
    [][(pc = "loop_body" /\ Len(sent') = 1 /\ sent'[1].post # "200")
        => /\ pc' = "loop"
           /\ pos' = pos + 1
           /\ last_saved_dates'[feeds[pos]] = sent'[1].item.published_parsed]_vars

\* Total time of a sequence of sleeps.
RECURSIVE Elapsed(_)
Elapsed(sleeps) ==
    IF sleeps = <<>> THEN 0 ELSE Head(sleeps) + Elapsed(Tail(sleeps))

\* C7: when the check loop is about to fetch and the previous fetch was a
\* check-loop fetch, at least REQUESTS_INTERVAL has been slept since that
\* previous fetch (stated for lists without repeated names, and as elapsed
\* time: a REQUESTS_INTERVAL sleep between the two fetches implies it).
C7_LoopFetchesPaced ==
    (NoRepeats(copy) /\ pc = "loop" /\ pos <= Len(feeds) /\ fetched = "loop")
        => Elapsed(slept) >= REQUESTS_INTERVAL

\* C8: when the seeding loop is about to fetch and has fetched before, a
\* REQUESTS_INTERVAL sleep has happened since that previous fetch (stated for
\* lists without repeated names).
C8_SeedFetchesPaced ==
    (NoRepeats(copy) /\ pc = "seed" /\ pos <= Len(copy) /\ fetched = "seed")
        => REQUESTS_INTERVAL \in Items(slept)

\* C9: once the check loop is entered the process never ends.
C9_CheckLoopNeverEnds ==
    [][(pc \in {"loop", "loop_body"}) => (pc' \in {"loop", "loop_body"})]_vars

\* C10: a fetch that got no HTTP response does not end the process: in
\* seeding the feed is removed and the loop moves to the next candidate, in
\* the check loop the feed is skipped.
C10_NetworkErrorContained ==
    [][(pc \in {"seed_body", "loop_body"} /\ data.status = "absent")
        => /\ pc' # "exit"
           /\ pos' = pos + 1
           /\ last_saved_dates' = last_saved_dates
           /\ sent' = sent
           /\ (pc = "seed_body" => feeds' = Remove(feeds, copy[pos]))
           /\ (pc = "loop_body" => feeds' = feeds)]_vars

InLoop == pc \in {"loop", "loop_body"}

\* C11: a check-loop fetch that returned no entries makes no send_to_slack
\* call and changes no saved date, and the loop moves to the next feed.
C11_EmptySnapshotSkipped ==
    [][(pc = "loop_body" /\ data.entries = <<>>)
        => /\ sent' = <<>>
           /\ last_saved_dates' = last_saved_dates
           /\ pc' = "loop"
           /\ pos' = pos + 1]_vars

\* A check-loop iteration has completed without sleeping: only the iteration
\* of a fetch without entries does.
C11_Witness ==
    /\ pc = "loop"
    /\ fetched = "loop"
    /\ slept = <<>>
    /\ sent = <<>>
    /\ pos > 1
    /\ DOMAIN last_saved_dates # {}

\* C12: the color of every send_to_slack call is decided by the first
\* phrase found in the title: "good" when the title contains "Service is
\* operating normally:" (whether or not it also contains "Informational
\* message:"), else "warning" when it contains "Informational message:", else
\* "danger".
C12_FirstMatchWins ==
    \A n \in 1..Len(sent) :
        LET title == sent[n].item.title
            color == sent[n].color
        IN  /\ NORMAL \in title => color = "good"
            /\ (NORMAL \notin title /\ INFORMATIONAL \in title) => color = "warning"
            /\ (NORMAL \notin title /\ INFORMATIONAL \notin title) => color = "danger"

\* A call was made for a title that contains both phrases.
C12_Witness ==
    \E n \in 1..Len(sent) :
        /\ sent[n].item.title = {NORMAL, INFORMATIONAL}
        /\ sent[n].color = "good"

\* C14: a seeding iteration whose fetch returned status 200 saves, for its
\* feed, the date of entry 0, or START_TIME when there are no entries, and
\* leaves the saved date of every other feed as it was.
C14_SeedDate ==
    [][(pc = "seed_body" /\ data.status = STATUS_OK)
        => /\ DOMAIN last_saved_dates' = DOMAIN last_saved_dates \cup {copy[pos]}
           /\ last_saved_dates'[copy[pos]] =
                 (IF data.entries # <<>> THEN NewestDate(data) ELSE START_TIME)
           /\ \A g \in DOMAIN last_saved_dates \ {copy[pos]} :
                 last_saved_dates'[g] = last_saved_dates[g]]_vars

\* Seeding is over with one feed seeded from START_TIME and another from an
\* entry dated otherwise.
C14_Witness ==
    /\ pc = "seed"
    /\ pos > Len(copy)
    /\ \E f, g \in DOMAIN last_saved_dates :
          /\ f # g
          /\ last_saved_dates[f] = START_TIME
          /\ last_saved_dates[g] # START_TIME

\* C15: no step of the check loop changes the list of watched feeds or the
\* set of feeds that have a saved date; a fetch without entries (whatever its
\* status) leaves the saved dates alone and the loop goes on; after the last
\* feed the next cycle starts again from the first.
C15_WatchSetFixed ==
    [][InLoop
        => /\ feeds' = feeds
           /\ DOMAIN last_saved_dates' = DOMAIN last_saved_dates
           /\ (pc = "loop_body" /\ data.entries = <<>>)
                => (last_saved_dates' = last_saved_dates /\ pc' = "loop")
           /\ (pc = "loop" /\ pos > Len(feeds)) => (pc' = "loop" /\ pos' = 1)
           /\ (pc = "loop" /\ pos <= Len(feeds)) => (pc' = "loop_body" /\ pos' = pos)]_vars

\* A cycle has ended right after the last feed's fetch returned no entries,
\* and the next cycle is about to fetch the first feed of the same list.
C15_Witness ==
    /\ pc = "loop"
    /\ pos = 1
    /\ fetched = "loop"
    /\ slept = <<CHECKS_INTERVAL>>
    /\ Items(feeds) \subseteq DOMAIN last_saved_dates

\* The fetched list has an entry after entry 0 that is later than the saved
\* date of the feed, and entry 0 is later than it too.
SeveralNewer ==
    /\ ComparesDates
    /\ NewestDate(data) > last_saved_dates[feeds[pos]]
    /\ \E n \in 2..Len(data.entries) :
          data.entries[n].published_parsed > last_saved_dates[feeds[pos]]

\* C17: when several fetched entries are later than the saved date, one
\* call is made, for entry 0, and the saved date becomes entry 0's date; and
\* since every call carries a date later than the saved date, which never
\* decreases in the check loop, no entry dated at or before entry 0 is sent
\* afterwards.
C17_OnlyNewestEntry ==
    [][/\ SeveralNewer
            => /\ Len(sent') = 1
               /\ sent'[1].item = Newest(data)
               /\ (pc' = "loop" =>
                     last_saved_dates'[feeds[pos]] = NewestDate(data))
       /\ (pc = "loop_body" /\ sent' # <<>>)
            => sent'[1].item.published_parsed > last_saved_dates[feeds[pos]]
       /\ InLoop
            => \A f \in DOMAIN last_saved_dates :
                  last_saved_dates'[f] >= last_saved_dates[f]]_vars

\* A fetch has returned two entries that are both later than the saved date.
C17_Witness ==
    /\ SeveralNewer
    /\ data.entries[2].published_parsed < NewestDate(data)

\* C19: once seeding is over every watched feed has a saved date, and no
\* lookup of a saved date ever raises KeyError.
C19_WatchedFeedsHaveDates ==
    /\ raised # "KeyError"
    /\ (InLoop \/ (pc = "seed" /\ pos > Len(copy)))
         => Items(feeds) \subseteq DOMAIN last_saved_dates

\* The check loop runs with a feed that one seeding fetch found not existent
\* and another found reachable.
C19_Witness ==
    /\ pc = "loop"
    /\ dropped \cap Items(feeds) # {}
    /\ Items(feeds) \subseteq DOMAIN last_saved_dates

\* C20: in the check loop a saved date changes only in the iteration of its
\* feed, only after a send_to_slack call for that feed has returned, and to
\* the date of the item sent; and a call that has returned is always followed
\* by that change.
C20_SavedOnlyAfterDispatch ==
    [][InLoop
        => /\ \A f \in DOMAIN last_saved_dates :
                 last_saved_dates'[f] # last_saved_dates[f]
                    => /\ pc = "loop_body"
                       /\ f = feeds[pos]
                       /\ Len(sent') = 1
                       /\ sent'[1].feed = f
                       /\ sent'[1].post # "ConnectionError"
                       /\ last_saved_dates'[f] = sent'[1].item.published_parsed
           /\ (pc = "loop_body" /\ sent' # <<>> /\ sent'[1].post # "ConnectionError")
                => last_saved_dates'[feeds[pos]] = sent'[1].item.published_parsed]_vars

\* An iteration has completed after a call whose post returned an error
\* response: the date of the item sent is the saved date.
C20_Witness ==
    /\ pc = "loop"
    /\ Len(sent) = 1
    /\ sent[1].post = "500"
    /\ last_saved_dates[sent[1].feed] = sent[1].item.published_parsed

\* C13 (specification Scenario): for the feed seeded from an entry dated t0,
\* the check-loop fetch that returns the same date makes no call; the later
\* fetch that returns a newer entry titled "Service is operating normally:
\* ..." makes exactly one call, colored "good"; and every fetch after that
\* whose newest entry is dated at or before t1 makes no call.
C13_SeededSameResolved ==
    [][(pc = "loop_body" /\ feeds[pos] = ScenarioFeed /\ data.entries # <<>>)
        => /\ (scenario.stage = "seeded" /\ NewestDate(data) = scenario.t0)
                => sent' = <<>>
           /\ (scenario.stage = "same" /\ NewestDate(data) > scenario.t0
                 /\ Newest(data).title = {NORMAL})
                => /\ Len(sent') = 1
                   /\ sent'[1].item = Newest(data)
                   /\ sent'[1].color = "good"
           /\ (scenario.stage = "resolved" /\ NewestDate(data) <= scenario.t1)
                => sent' = <<>>]_vars

\* The scenario has reached its last stage and a later fetch of the feed,
\* with entries but nothing newer, has completed without a call.
C13_Witness ==
    /\ scenario.stage = "resolved"
    /\ scenario.t1 > scenario.t0
    /\ pc = "loop"
    /\ pos > 1
    /\ feeds[pos - 1] = ScenarioFeed
    /\ fetched = "loop"
    /\ sent = <<>>
    /\ slept = <<REQUESTS_INTERVAL>>

\* C16 (specification Watched): once seeding is over, the list the check
\* loop traverses is the candidate list restricted to the candidates found
\* reachable, in candidate order, and no check-loop step changes it.
C16_CandidateOrderKept ==
    (InLoop \/ (pc = "seed" /\ pos > Len(copy))) => feeds = kept

\* C18 (specification Watched): in the check loop a feed's saved date
\* changes at most once per cycle, and only when the fetched newest entry is
\* strictly later than it.
C18_OneWritePerCycle ==
    [][(pc = "loop_body" /\ last_saved_dates' # last_saved_dates)
        => /\ feeds[pos] \notin wrote
           /\ data.entries # <<>>
           /\ NewestDate(data) > last_saved_dates[feeds[pos]]]_vars

====
